---- MODULE Spec2Model ----
(***************************************************************************)
(* Model of the crypto router of bruncher-api (src/unnamed/part_000):     *)
(* the /compare handler with its per-key promise cache (compareCache,     *)
(* compareLocks), the background retry worker and its retryQueue, the     *)
(* throttled transport (throttledFetch / fetchWithRetry) and the market   *)
(* snapshot cache (fetchCoinData).                                        *)
(*                                                                         *)
(* JavaScript runs one callback at a time: every action below is the code *)
(* that runs between two suspension points (await of a timer or of an     *)
(* upstream response).  Continuations of one settled promise run in the   *)
(* same microtask checkpoint, so they belong to the action that settles   *)
(* the promise.                                                            *)
(***************************************************************************)
EXTENDS Integers, Sequences, FiniteSets, TLC

\* ------------------------------------------------------------------------
\* Bounds of the model
\* ------------------------------------------------------------------------
NumReq == 2
MaxTicks == 4
NumFetch == 2
MaxThrottleTicks == 6
NumSnap == 3
MaxSnapshotTicks == 2
NumPreload == 2
MaxStamp == 3
MaxPreloadTicks == 1

\* ------------------------------------------------------------------------
\* Program constants
\* ------------------------------------------------------------------------
CACHE_DURATION == 15 * 60 * 1000
COMPARE_CACHE_DURATION == 60 * 1000
CHART_THROTTLE_MS == 3000
WORKER_INTERVAL_MS == 15 * 1000
MAX_FETCH_ATTEMPTS == 30
BACKOFF_STEP_MS == 500
BACKOFF_CAP_MS == 8000
JITTER_MS == 300
MAX_TASK_ATTEMPTS == 30

\* Date.now() of a running process is far from the epoch: every age computed
\* against the initial 0 timestamps is above every TTL and every interval.
StartTime == CACHE_DURATION
TickMs == WORKER_INTERVAL_MS
EndTime == StartTime + MaxTicks * TickMs

\* null / undefined of a string-valued field, and an id never requested
Null == "null"
NoCoin == <<>>
NoLock == 0
NoStatus == 0

\* ------------------------------------------------------------------------
\* Strings that the code sorts and joins are sequences of characters
\* ------------------------------------------------------------------------
Letters == <<"a","b","c","d","e","f","g","h","i","j","k","l","m",
             "n","o","p","q","r","s","t","u","v","w","x","y","z">>

\* UTF-16 code unit of a character, the order Array.prototype.sort uses
CharCode(c) ==
  IF c = "_" THEN 95
  ELSE IF c = "-" THEN 45
  ELSE 96 + (CHOOSE i \in 1..Len(Letters) : Letters[i] = c)

\* s < t as JavaScript compares two strings
StrLess(s, t) ==
  \E i \in 1..(Len(t)) :
     /\ \A j \in 1..(i - 1) : j <= Len(s) /\ s[j] = t[j]
     /\ \/ i = Len(s) + 1
        \/ i <= Len(s) /\ CharCode(s[i]) < CharCode(t[i])

Bitcoin == <<"b","i","t","c","o","i","n">>
Ethereum == <<"e","t","h","e","r","e","u","m">>
Coins == {Bitcoin, Ethereum}
\* the (coin1, coin2) query parameters of the modelled requests
Queries == {<<Bitcoin, Ethereum>>, <<Ethereum, Bitcoin>>}

\* [coin1, coin2].sort()
SortPair(c1, c2) == IF StrLess(c2, c1) THEN <<c2, c1>> ELSE <<c1, c2>>

\* line 188 without the sort: [coin1, coin2].join("_")
KeyAsGiven(c1, c2) == c1 \o <<"_">> \o c2

\* [coin1, coin2].sort().join("_")
Key(c1, c2) == SortPair(c1, c2)[1] \o <<"_">> \o SortPair(c1, c2)[2]

Keys == {Key(q[1], q[2]) : q \in Queries}

\* `preload_${coinId}`
PreloadKey(coinId) == <<"p", "r", "e", "l", "o", "a", "d", "_">> \o coinId
\* the keys of compareCache in use
CacheKeys == Keys \cup {PreloadKey(coinId) : coinId \in Coins}

TOP_COMPARE_PAIRS == << <<Bitcoin, Ethereum>> >>

\* ------------------------------------------------------------------------
\* Upstream responses
\* ------------------------------------------------------------------------
\* The daily series the upstream holds for a coin; days is 365 or "max".
\* It does not change within the minutes a run of the model covers.
SeriesA == << <<1, 10>>, <<2, 11>>, <<3, 12>> >>
SeriesB == << <<2, 20>>, <<3, 21>>, <<4, 22>> >>
OneYear == "365"
MaxRange == "max"
MarketChart(coin, days) ==
  LET year == IF coin = Bitcoin THEN SeriesA ELSE SeriesB
  IN IF days = MaxRange THEN << <<0, 5>> >> \o year ELSE year

\* The ways a fetchWithRetry call settles: resp.data, or the error of the
\* last failed call (404 after the days=max fallback failed, 429 or no
\* status after the last retry, any other status at once).
FailStatus == {404, 429, 500, NoStatus}
\* data is a body {prices: [...]}; NoData is the null of data1 / data2
NoData == [has |-> FALSE, prices |-> <<>>]
Body(prices) == [has |-> TRUE, prices |-> prices]
FetchOutcomes == {200} \cup FailStatus

\* The ways a plain axios.get(url, {days: "max"}) settles.
AxiosOutcomes == {200, 404}
\* lines 224-228: the handler's own days=max call is made after a 404 only
FallbackOutcomes(o) == IF o = 404 THEN AxiosOutcomes ELSE {NoStatus}
\* The ways Promise.all of two fetchWithRetry calls settles: both bodies, or
\* the error of the first call that fails.
PromiseAllOutcomes == {200} \cup FailStatus

\* data?.prices || []
PricesOf(data) == IF data.has THEN data.prices ELSE <<>>

\* ------------------------------------------------------------------------
\* alignTimeframes
\* ------------------------------------------------------------------------
\* [...new Map(series).keys()] : first occurrence of each timestamp
MapKeys(series) ==
  LET first(i) == \A j \in 1..(i - 1) : series[j][1] # series[i][1]
      idx == SelectSeq([i \in 1..Len(series) |-> i], first)
  IN [k \in 1..Len(idx) |-> series[idx[k]][1]]

MapHas(series, t) == \E i \in 1..Len(series) : series[i][1] = t

\* new Map(series).get(t) : the last point with that timestamp wins
MapGet(series, t) ==
  LET last == CHOOSE i \in 1..Len(series) :
                /\ series[i][1] = t
                /\ \A j \in (i + 1)..Len(series) : series[j][1] # t
  IN series[last][2]

\* a missing series (undefined): no series has a point without components
Absent == << <<>> >>

\* lines 165-176 with the filter of line 171 left out: the inputs as given
alignTimeframesAsGiven(series1, series2) == <<series1, series2>>

alignTimeframes(series1, series2) ==
  IF series1 = Absent \/ series2 = Absent THEN <<series1, series2>>
  ELSE LET in2(t) == MapHas(series2, t)
           commonTimestamps == SelectSeq(MapKeys(series1), in2)
       IN << [k \in 1..Len(commonTimestamps) |->
                <<commonTimestamps[k], MapGet(series1, commonTimestamps[k])>>],
             [k \in 1..Len(commonTimestamps) |->
                <<commonTimestamps[k], MapGet(series2, commonTimestamps[k])>>] >>

\* ------------------------------------------------------------------------
\* Results of /compare
\* ------------------------------------------------------------------------
PlaceholderWarning == "No data available - using placeholder"
StaleWarning == "Served stale cached data due to error"

safePlaceholder(coin1, coin2) ==
  [coin1 |-> coin1, coin2 |-> coin2,
   data |-> << [name |-> coin1, prices |-> <<>>],
               [name |-> coin2, prices |-> <<>>] >>,
   warning |-> PlaceholderWarning]

\* lines 258-274 without the call of line 263: the series as fetched
CompareResultAsFetched(coin1, coin2, data1, data2) ==
  [coin1 |-> coin1, coin2 |-> coin2,
   data |-> (IF data1.has THEN << [name |-> coin1, prices |-> PricesOf(data1)] >> ELSE <<>>)
            \o (IF data2.has THEN << [name |-> coin2, prices |-> PricesOf(data2)] >> ELSE <<>>),
   warning |-> Null]

\* lines 258-274: the result object of a refresh with at least one series
CompareResult(coin1, coin2, data1, data2) ==
  LET both == data1.has /\ data2.has
      al == alignTimeframes(PricesOf(data1), PricesOf(data2))
      aligned1 == IF both THEN al[1] ELSE PricesOf(data1)
      aligned2 == IF both THEN al[2] ELSE PricesOf(data2)
  IN [coin1 |-> coin1, coin2 |-> coin2,
      data |-> (IF data1.has THEN << [name |-> coin1, prices |-> aligned1] >> ELSE <<>>)
               \o (IF data2.has THEN << [name |-> coin2, prices |-> aligned2] >> ELSE <<>>),
      warning |-> Null]

\* res.json(body): status 200
Json(body) == [status |-> 200, body |-> body]
\* res.status(500).json({ error: "Failed to fetch comparison data" })
ErrorResponse == [status |-> 500, body |-> [error |-> "Failed to fetch comparison data"]]
NoResult == [coin1 |-> NoCoin, coin2 |-> NoCoin, data |-> <<>>, warning |-> Null]
NoResponse == [status |-> 0, body |-> NoResult]
\* compareCache[key] === undefined
NoEntry == [has |-> FALSE, timestamp |-> 0, data |-> NoResult]
Entry(timestamp, data) == [has |-> TRUE, timestamp |-> timestamp, data |-> data]

\* ------------------------------------------------------------------------
\* State
\* ------------------------------------------------------------------------
VARIABLES
  now,            \* Date.now()
  compareCache,   \* key -> NoEntry or [timestamp, data]
  compareLocks,   \* key -> NoLock or the id of the promise stored there
  retryQueue,     \* sequence of [coin1, coin2, attempt]
  req,            \* the /compare requests: position in the handler, response
  promise,        \* the promises created at line 209, by initiating request
  running,        \* worker callbacks suspended at the Promise.all of line 512
  workerDue,      \* the 15 s interval timer of the worker has fired
  prewarmDue,     \* the hourly timer of staggeredCompareWarmup has yet to fire
  lastMarketChartFetch,  \* when throttledFetch last issued a call
  fetch,          \* the fetchWithRetry calls: position, attempt, params
  issued,         \* the times at which throttledFetch called axios.get
  cache,          \* the market snapshot, or null
  lastFetch,      \* the timestamp of the snapshot
  fetchPromise,   \* NoLock or the id of the pending snapshot refresh
  snap,           \* the fetchCoinData calls: position, result
  snapPromise,    \* the promises created at line 42, by initiating call
  upstreamCalls,  \* number of axios.get(COINGECKO_URL) calls issued
  snapTicks,      \* steps the clock of the snapshot part has made
  retry,          \* fetchWithRetry calls followed call by call
  series,         \* the two arguments of an alignTimeframes call
  aligned,        \* what that call returned
  preload         \* the ensurePreloadedCoin / preloadChart calls

compareVars == <<compareCache, compareLocks, retryQueue, req, promise, running,
                 workerDue, prewarmDue>>
throttleVars == <<lastMarketChartFetch, fetch, issued>>
snapshotVars == <<cache, lastFetch, fetchPromise, snap, snapPromise, upstreamCalls,
                  snapTicks>>
retryVars == <<retry>>
alignVars == <<series, aligned>>
preloadVars == <<preload>>
otherVars == <<retryVars, alignVars, preloadVars>>
vars == <<now, compareVars, throttleVars, snapshotVars, otherVars>>

Req == 1..NumReq

\* calls: the coins fetchWithRetry has been called for, in order
NoPromise == [state |-> "none", coin1 |-> NoCoin, coin2 |-> NoCoin, key |-> NoCoin,
              data1 |-> NoData, data2 |-> NoData, value |-> NoResult, calls |-> <<>>]
NewReq == [pc |-> "new", coin1 |-> NoCoin, coin2 |-> NoCoin, path |-> "none",
           lock |-> NoLock, resp |-> NoResponse]

Pending(p) == promise[p].state \in {"fetch1", "pacing", "fetch2"}

Fetchers == 1..NumFetch
\* a fetchWithRetry call: attempt and params.days are its arguments, err the
\* status of the error caught at line 123, wake the deadline of its timer
NewFetch == [pc |-> "idle", attempt |-> 1, days |-> OneYear, err |-> NoStatus,
             wake |-> 0]

\* calls interact through the timing of throttledFetch only: one call site
\* is followed at a time
Callers == {"call"}
\* a fetchWithRetry call and the code awaiting it: site is where it was
\* called from, attempt and days its arguments, err the status of the error
\* fetchWithRetry throws, seen the statuses its days=365 calls failed with,
\* year / max the upstream calls made with days=365 / days="max"
NewRetry == [pc |-> "idle", site |-> "none", attempt |-> 1, days |-> OneYear,
             settled |-> "none", err |-> NoStatus, seen |-> {}, year |-> 0,
             max |-> 0, data |-> NoData]

Preloads == 1..NumPreload
\* what a call returned: a cache entry, null / undefined, or an exception
NoReturn == [kind |-> "none", entry |-> NoEntry]
\* an ensurePreloadedCoin or preloadChart call: fetched tells whether it
\* has called fetchWithRetry
NewPreload == [pc |-> "new", fn |-> "none", coinId |-> NoCoin, fetched |-> FALSE,
               result |-> NoReturn]

\* the arguments of a call not made
NoArgs == <<>>

Snaps == 1..NumSnap
NoSnapshot == [has |-> FALSE, rows |-> <<>>]
NoOutcome == [kind |-> "none", value |-> NoSnapshot]
\* a fetchCoinData call: force is its argument and at the const now (line
\* 28) that the pending refresh of an initiating call holds; both are kept
\* while the call is pending
NewSnap == [pc |-> "new", force |-> FALSE, at |-> 0, path |-> "none",
            lock |-> NoLock, result |-> NoOutcome]

\* the state of the process once the module is loaded
InitProgram ==
  /\ now = StartTime
  /\ compareCache = [k \in CacheKeys |-> NoEntry]
  /\ compareLocks = [k \in Keys |-> NoLock]
  /\ retryQueue = <<>>
  /\ req = [r \in Req |-> NewReq]
  /\ promise = [r \in Req |-> NoPromise]
  /\ running = <<>>
  /\ workerDue = FALSE
  /\ prewarmDue = TRUE
  /\ lastMarketChartFetch = 0
  /\ fetch = [f \in Fetchers |-> NewFetch]
  /\ issued = <<>>
  /\ cache = NoSnapshot
  /\ lastFetch = 0
  /\ fetchPromise = NoLock
  /\ snap = [c \in Snaps |-> NewSnap]
  /\ snapPromise = [c \in Snaps |-> "none"]
  /\ upstreamCalls = 0
  /\ snapTicks = 0
  /\ retry = [c \in Callers |-> NewRetry]
  /\ preload = [c \in Preloads |-> NewPreload]

\* no alignTimeframes call is followed
Init ==
  /\ InitProgram
  /\ series = NoArgs
  /\ aligned = NoArgs

\* ------------------------------------------------------------------------
\* router.get("/compare")
\* ------------------------------------------------------------------------
\* lines 192-193: a cache entry younger than the TTL
CacheFresh(key) ==
  compareCache[key].has
    /\ now - compareCache[key].timestamp < COMPARE_CACHE_DURATION

\* line 199 with the test left out
HasLockNever(key) == FALSE

\* line 199: if (compareLocks[key])
HasLock(key) == compareLocks[key] # NoLock

\* lines 186-221 and 281-282: the handler up to its first suspension
GetComparison(r, coin1, coin2) ==
  /\ req[r].pc = "new"
  /\ LET key == Key(coin1, coin2)
         cached == compareCache[key]
         p == compareLocks[key]
         me == [NewReq EXCEPT !.coin1 = coin1, !.coin2 = coin2]
     IN IF CacheFresh(key)
        THEN /\ req' = [req EXCEPT ![r] = [me EXCEPT !.pc = "done", !.path = "cache",
                                              !.resp = Json(cached.data)]]
             /\ UNCHANGED <<compareLocks, promise>>
        ELSE IF HasLock(key)
        THEN /\ req' = [req EXCEPT ![r] =
                  IF promise[p].state = "fulfilled"
                  THEN [me EXCEPT !.pc = "done", !.path = "settled", !.lock = p,
                                  !.resp = Json(promise[p].value)]
                  ELSE IF promise[p].state = "rejected"
                  THEN [me EXCEPT !.pc = "done", !.path = "settled", !.lock = p,
                                  !.resp = ErrorResponse]
                  ELSE [me EXCEPT !.pc = "joined", !.path = "joined", !.lock = p]]
             /\ UNCHANGED <<compareLocks, promise>>
        ELSE /\ compareLocks' = [compareLocks EXCEPT ![key] = r]
             /\ promise' = [promise EXCEPT ![r] =
                  [NoPromise EXCEPT !.state = "fetch1", !.coin1 = coin1,
                                    !.coin2 = coin2, !.key = key,
                                    !.calls = <<coin1>>]]
             /\ req' = [req EXCEPT ![r] = [me EXCEPT !.pc = "own", !.path = "started",
                                                    !.lock = r]]
  /\ UNCHANGED <<now, compareCache, retryQueue, running, workerDue, prewarmDue>>
  /\ UNCHANGED <<throttleVars, snapshotVars, otherVars>>

\* lines 220-230 / 238-248: what one coin fetch of the refresh leaves in
\* data1 / data2
CoinData(coin, o, fb) ==
  IF o = 200 THEN Body(MarketChart(coin, OneYear))
  ELSE IF o = 404 /\ fb = 200 THEN Body(MarketChart(coin, MaxRange))
  ELSE NoData

\* lines 219-235: fetchWithRetry(url1) settles, the pacing timer is armed
Fetch1Settle(p, o, fb) ==
  /\ promise[p].state = "fetch1"
  /\ promise' = [promise EXCEPT ![p].data1 = CoinData(promise[p].coin1, o, fb), ![p].state = "pacing"]
  /\ UNCHANGED <<now, compareCache, compareLocks, retryQueue, req, running,
                 workerDue, prewarmDue>>
  /\ UNCHANGED <<throttleVars, snapshotVars, otherVars>>

\* lines 235-239: the pacing timer fires, fetchWithRetry(url2) is called
PacingElapsed(p) ==
  /\ promise[p].state = "pacing"
  /\ promise' = [promise EXCEPT ![p].state = "fetch2",
                                 ![p].calls = Append(promise[p].calls, promise[p].coin2)]
  /\ UNCHANGED <<now, compareCache, compareLocks, retryQueue, req, running,
                 workerDue, prewarmDue>>
  /\ UNCHANGED <<throttleVars, snapshotVars, otherVars>>

\* lines 202-206: continuation of a caller that joined the promise
JoinedResponse(fulfilled, result) ==
  IF fulfilled THEN Json(result) ELSE ErrorResponse

\* lines 284-296: the catch block of the initiating caller
FailureResponse(cached, coin1, coin2) ==
  IF cached.has
  THEN \* { ...cached.data, warning }: the fields of the entry, whatever they are
       Json([f \in DOMAIN cached.data \cup {"warning"} |->
               IF f = "warning" THEN StaleWarning ELSE cached.data[f]])
  ELSE Json(safePlaceholder(coin1, coin2))

\* line 286 left out
FailureTasksNone(coin1, coin2) == <<>>

\* line 286
FailureTasks(coin1, coin2) == << [coin1 |-> coin1, coin2 |-> coin2, attempt |-> 1] >>

\* lines 238-297: fetchWithRetry(url2) settles, the promise settles and the
\* handlers awaiting it respond
Fetch2Settle(p, o, fb) ==
  /\ promise[p].state = "fetch2"
  /\ LET pr == promise[p]
         data1 == pr.data1
         data2 == CoinData(pr.coin2, o, fb)
         failed == ~data1.has /\ ~data2.has
         result == CompareResult(pr.coin1, pr.coin2, data1, data2)
         joined == {r \in Req : req[r].pc = "joined" /\ req[r].lock = p}
     IN /\ promise' = [promise EXCEPT ![p] =
               [pr EXCEPT !.data2 = data2,
                          !.state = IF failed THEN "rejected" ELSE "fulfilled",
                          !.value = IF failed THEN NoResult ELSE result]]
        /\ compareCache' = IF failed THEN compareCache
                           ELSE [compareCache EXCEPT ![pr.key] =
                                   Entry(now, result)]
        /\ retryQueue' = IF failed
                         THEN retryQueue \o FailureTasks(req[p].coin1, req[p].coin2)
                         ELSE retryQueue
        /\ req' = [r \in Req |->
               IF r = p
               THEN [req[r] EXCEPT !.pc = "done",
                       !.resp = IF failed
                                THEN FailureResponse(compareCache[pr.key],
                                                     req[p].coin1, req[p].coin2)
                                ELSE Json(result)]
               ELSE IF r \in joined
               THEN [req[r] EXCEPT !.pc = "done",
                       !.resp = JoinedResponse(~failed, result)]
               ELSE req[r]]
  /\ UNCHANGED <<now, compareLocks, running, workerDue, prewarmDue>>
  /\ UNCHANGED <<throttleVars, snapshotVars, otherVars>>

\* ------------------------------------------------------------------------
\* Background retry worker and prewarm
\* ------------------------------------------------------------------------
\* lines 498-515: one tick of the worker up to the await of Promise.all
WorkerTick ==
  /\ workerDue
  /\ workerDue' = FALSE
  /\ IF Len(retryQueue) = 0
     THEN UNCHANGED <<retryQueue, running>>
     ELSE /\ retryQueue' = Tail(retryQueue)
          /\ running' = Append(running, Head(retryQueue))
  /\ UNCHANGED <<now, compareCache, compareLocks, req, promise, prewarmDue>>
  /\ UNCHANGED <<throttleVars, snapshotVars, otherVars>>

RemoveAt(s, i) == [k \in 1..(Len(s) - 1) |-> IF k < i THEN s[k] ELSE s[k + 1]]

\* line 540 pushing the task as it was popped
RequeueSameCount(task) ==
  IF task.attempt < MAX_TASK_ATTEMPTS THEN <<task>> ELSE <<>>

\* lines 539-544
Requeue(task) ==
  IF task.attempt < MAX_TASK_ATTEMPTS
  THEN << [task EXCEPT !.attempt = task.attempt + 1] >>
  ELSE <<>>

\* lines 512-545: Promise.all settles (both fulfilled, or the first rejection)
WorkerSettle(i, o) ==
  /\ i \in 1..Len(running)
  /\ LET task == running[i]
         key == Key(task.coin1, task.coin2)
         data1 == Body(MarketChart(task.coin1, OneYear))
         data2 == Body(MarketChart(task.coin2, OneYear))
         al == alignTimeframes(PricesOf(data1), PricesOf(data2))
     IN IF o = 200
        THEN /\ compareCache' = [compareCache EXCEPT ![key] =
                  Entry(now, [coin1 |-> task.coin1, coin2 |-> task.coin2,
                              data |-> << [name |-> task.coin1, prices |-> al[1]],
                                          [name |-> task.coin2, prices |-> al[2]] >>,
                              warning |-> Null])]
             /\ UNCHANGED retryQueue
        ELSE /\ retryQueue' = retryQueue \o Requeue(task)
             /\ UNCHANGED compareCache
  /\ running' = RemoveAt(running, i)
  /\ UNCHANGED <<now, compareLocks, req, promise, workerDue, prewarmDue>>
  /\ UNCHANGED <<throttleVars, snapshotVars, otherVars>>

\* lines 607-617: staggeredCompareWarmup after its 3 s timers.  Its timer
\* has a period of one hour, longer than the time a run covers:
\* it fires at most once.
Prewarm ==
  /\ prewarmDue
  /\ prewarmDue' = FALSE
  /\ retryQueue' = retryQueue \o
        [k \in 1..Len(TOP_COMPARE_PAIRS) |->
            [coin1 |-> TOP_COMPARE_PAIRS[k][1], coin2 |-> TOP_COMPARE_PAIRS[k][2],
             attempt |-> 1]]
  /\ UNCHANGED <<now, compareCache, compareLocks, req, promise, running, workerDue>>
  /\ UNCHANGED <<throttleVars, snapshotVars, otherVars>>

\* The clock advances by one worker interval; the interval timer fires.
Tick ==
  /\ now < EndTime
  /\ now' = now + TickMs
  /\ workerDue' = TRUE
  /\ UNCHANGED <<compareCache, compareLocks, retryQueue, req, promise, running,
                 prewarmDue>>
  /\ UNCHANGED <<throttleVars, snapshotVars, otherVars>>

Next ==
  \/ \E r \in Req, q \in Queries : GetComparison(r, q[1], q[2])
  \/ \E p \in Req, o \in FetchOutcomes : \E fb \in FallbackOutcomes(o) :
        Fetch1Settle(p, o, fb)
  \/ \E p \in Req : PacingElapsed(p)
  \/ \E p \in Req, o \in FetchOutcomes : \E fb \in FallbackOutcomes(o) :
        Fetch2Settle(p, o, fb)
  \/ WorkerTick
  \/ \E i \in 1..Len(running), o \in PromiseAllOutcomes : WorkerSettle(i, o)
  \/ Prewarm
  \/ Tick

Spec == Init /\ [][Next]_vars

TypeOK ==
  /\ now >= StartTime
  /\ \A k \in Keys : compareLocks[k] \in {NoLock} \cup Req
  /\ \A r \in Req : req[r].pc \in {"new", "own", "joined", "done"}

\* ------------------------------------------------------------------------
\* throttledFetch and fetchWithRetry
\* ------------------------------------------------------------------------
Max(a, b) == IF a > b THEN a ELSE b
Min(a, b) == IF a < b THEN a ELSE b

\* the clock of this part advances in steps of a third of the interval
ThrottleTickMs == CHART_THROTTLE_MS \div 3
ThrottleEndTime == StartTime + MaxThrottleTicks * ThrottleTickMs

\* line 112
ThrottleDelay(last) == Max(0, CHART_THROTTLE_MS - (now - last))

\* line 129; Math.random() * 300 lies in [0, 300)
BackoffDelay(attempt, jitter) == Min(BACKOFF_STEP_MS * attempt, BACKOFF_CAP_MS) + jitter
Jitter == {0, JITTER_MS - 1}

\* lines 111-115, the part of throttledFetch that runs in the caller's
\* callback: with a delay it arms the timer, without one it issues the call.
\* t carries fetch, lastMarketChartFetch and issued through the callback.
ThrottledFetch(t, f) ==
  LET delay == ThrottleDelay(t.last)
  IN IF delay > 0
     THEN [t EXCEPT !.fetch[f].pc = "throttle", !.fetch[f].wake = now + delay]
     ELSE [t EXCEPT !.fetch[f].pc = "call", !.last = now,
                    !.issued = Append(t.issued, now)]

Throttle == [fetch |-> fetch, last |-> lastMarketChartFetch, issued |-> issued]
SetThrottle(t) ==
  /\ fetch' = t.fetch
  /\ lastMarketChartFetch' = t.last
  /\ issued' = t.issued

\* lines 119-121: fetchWithRetry(url, params) called by a handler
\* (lines 221, 239, 356, 625)
StartFetch(f) ==
  /\ fetch[f].pc = "idle"
  /\ SetThrottle(ThrottledFetch(Throttle, f))
  /\ UNCHANGED <<now, compareVars, snapshotVars, otherVars>>

\* lines 512-515: the worker calls fetchWithRetry twice in one callback
StartPair(f, g) ==
  /\ f # g
  /\ fetch[f].pc = "idle" /\ fetch[g].pc = "idle"
  /\ SetThrottle(ThrottledFetch(ThrottledFetch(Throttle, f), g))
  /\ UNCHANGED <<now, compareVars, snapshotVars, otherVars>>

\* lines 113-115: the timer of throttledFetch fires, the call is issued
ThrottleWake(f) ==
  /\ fetch[f].pc = "throttle"
  /\ now >= fetch[f].wake
  /\ fetch' = [fetch EXCEPT ![f].pc = "call"]
  /\ lastMarketChartFetch' = now
  /\ issued' = Append(issued, now)
  /\ UNCHANGED <<now, compareVars, snapshotVars, otherVars>>

\* line 128 without the test of the status: every failure is retried
RetriableAnyStatus(status, attempt) ==
  status # 200 /\ attempt < MAX_FETCH_ATTEMPTS

\* line 128 with the ceiling its comment names (20 retries)
RetriableBelowTwenty(status, attempt) ==
  (status = 429 \/ status = NoStatus) /\ attempt < 20

\* lines 125-128
Retriable(status, attempt) ==
  (status = 429 \/ status = NoStatus) /\ attempt < MAX_FETCH_ATTEMPTS

\* lines 121-149: the response of an issued call arrives
CallSettle(f, status, jitter) ==
  /\ fetch[f].pc = "call"
  /\ LET me == fetch[f]
     IN IF status = 200
        THEN /\ fetch' = [fetch EXCEPT ![f].pc = "resolved"]
             /\ UNCHANGED <<lastMarketChartFetch, issued>>
        ELSE IF me.days = MaxRange
        THEN \* line 143: the fallback failed, the first error is thrown
             /\ fetch' = [fetch EXCEPT ![f].pc = "rejected"]
             /\ UNCHANGED <<lastMarketChartFetch, issued>>
        ELSE IF Retriable(status, me.attempt)
        THEN /\ fetch' = [fetch EXCEPT ![f].pc = "backoff",
                            ![f].wake = now + BackoffDelay(me.attempt, jitter)]
             /\ UNCHANGED <<lastMarketChartFetch, issued>>
        ELSE IF status = 404 /\ me.days = OneYear
        THEN SetThrottle(ThrottledFetch(
               [Throttle EXCEPT !.fetch[f].days = MaxRange, !.fetch[f].err = status], f))
        ELSE /\ fetch' = [fetch EXCEPT ![f].pc = "rejected", ![f].err = status]
             /\ UNCHANGED <<lastMarketChartFetch, issued>>
  /\ UNCHANGED <<now, compareVars, snapshotVars, otherVars>>

\* lines 133-134: the backoff timer fires, fetchWithRetry(url, params, attempt + 1)
BackoffWake(f) ==
  /\ fetch[f].pc = "backoff"
  /\ now >= fetch[f].wake
  /\ SetThrottle(ThrottledFetch(
       [Throttle EXCEPT !.fetch[f].attempt = fetch[f].attempt + 1], f))
  /\ UNCHANGED <<now, compareVars, snapshotVars, otherVars>>

ThrottleTick ==
  /\ now < ThrottleEndTime
  /\ now' = now + ThrottleTickMs
  /\ UNCHANGED <<compareVars, throttleVars, snapshotVars, otherVars>>

NextThrottle ==
  \/ \E f \in Fetchers : StartFetch(f)
  \/ \E f \in Fetchers, g \in Fetchers : StartPair(f, g)
  \/ \E f \in Fetchers : ThrottleWake(f)
  \/ \E f \in Fetchers, status \in FetchOutcomes, jitter \in Jitter :
        CallSettle(f, status, jitter)
  \/ \E f \in Fetchers : BackoffWake(f)
  \/ ThrottleTick

SpecThrottle == Init /\ [][NextThrottle]_vars

\* C6: any two calls issued through throttledFetch are CHART_THROTTLE_MS
\* or more apart.
C6_MinSpacing ==
  \A i \in 1..Len(issued), j \in 1..Len(issued) :
     i < j => issued[j] - issued[i] >= CHART_THROTTLE_MS

\* C7: at most one call issued by throttledFetch awaits its response.
C7_OneOutstanding ==
  Cardinality({f \in Fetchers : fetch[f].pc = "call"}) <= 1

\* ------------------------------------------------------------------------
\* fetchWithRetry call by call, and the coin fetch of /compare around it
\* ------------------------------------------------------------------------
\* The timers of throttledFetch and of the backoff only postpone the next
\* call; here a call site is followed through the calls it makes.
\* site "direct": fetchWithRetry awaited as it is (lines 356, 513, 514);
\* site "coin": the coin fetch of /compare (lines 220-230, 238-248).
Sites == {"direct", "coin"}

\* lines 119-121: fetchWithRetry(url, params) is called, throttledFetch makes
\* the first call
RetryCall(c, site) ==
  /\ retry[c].pc = "idle"
  /\ retry' = [retry EXCEPT ![c] = [NewRetry EXCEPT !.pc = "call", !.site = site,
                                                    !.year = 1]]
  /\ UNCHANGED <<now, compareVars, throttleVars, snapshotVars, alignVars, preloadVars>>

\* lines 122 / 142, then 221 / 239: fetchWithRetry returns resp.data
Resolved(me) ==
  [me EXCEPT !.settled = "resolved", !.data = Body(MarketChart(Bitcoin, me.days)),
             !.pc = IF me.site = "coin" THEN "data" ELSE "resolved"]

\* line 148, then lines 222-229 / 240-247: fetchWithRetry throws err; the
\* catch of /compare calls axios.get with days = "max" after a 404
Rejected(me, status) ==
  [me EXCEPT !.settled = "rejected", !.err = status,
             !.pc = IF me.site = "coin"
                    THEN (IF status = 404 THEN "axios" ELSE "null")
                    ELSE "rejected",
             !.max = IF me.site = "coin" /\ status = 404 THEN me.max + 1 ELSE me.max]

\* lines 121-149: the response of a throttledFetch call arrives
RetrySettle(c, status) ==
  /\ retry[c].pc = "call"
  /\ LET me == retry[c]
         failed == [me EXCEPT !.seen = me.seen \cup {status}]
     IN retry' = [retry EXCEPT ![c] =
          IF status = 200 THEN Resolved(me)
          ELSE IF me.days = MaxRange
          THEN \* lines 143-148: the fallback failed, err is thrown
               Rejected(me, me.err)
          ELSE IF Retriable(status, me.attempt)
          THEN [failed EXCEPT !.pc = "backoff"]
          ELSE IF status = 404 /\ me.days = OneYear
          THEN \* line 141
               [failed EXCEPT !.err = status, !.days = MaxRange, !.max = me.max + 1]
          ELSE Rejected(failed, status)]
  /\ UNCHANGED <<now, compareVars, throttleVars, snapshotVars, alignVars, preloadVars>>

\* lines 133-134: the backoff timer fires, fetchWithRetry(url, params, attempt + 1)
RetryBackoffWake(c) ==
  /\ retry[c].pc = "backoff"
  /\ retry' = [retry EXCEPT ![c].pc = "call",
                            ![c].attempt = retry[c].attempt + 1,
                            ![c].year = retry[c].year + 1]
  /\ UNCHANGED <<now, compareVars, throttleVars, snapshotVars, alignVars, preloadVars>>

\* lines 227-228 / 245-246: the axios.get of the catch of /compare settles
CoinFallbackSettle(c, status) ==
  /\ retry[c].pc = "axios"
  /\ retry' = [retry EXCEPT ![c] =
        IF status = 200
        THEN [retry[c] EXCEPT !.pc = "data",
                              !.data = Body(MarketChart(Bitcoin, MaxRange))]
        ELSE [retry[c] EXCEPT !.pc = "null"]]
  /\ UNCHANGED <<now, compareVars, throttleVars, snapshotVars, alignVars, preloadVars>>

NextRetry ==
  \/ \E c \in Callers, site \in Sites : RetryCall(c, site)
  \/ \E c \in Callers, status \in FetchOutcomes : RetrySettle(c, status)
  \/ \E c \in Callers : RetryBackoffWake(c)
  \/ \E c \in Callers, status \in AxiosOutcomes : CoinFallbackSettle(c, status)

SpecRetry == Init /\ [][NextRetry]_vars

\* the call site has its outcome
RetryDone(c) == retry[c].pc \in {"resolved", "rejected", "data", "null"}

C12_OneSubstitutedCall ==
  \A c \in Callers :
     (RetryDone(c) /\ 404 \in retry[c].seen) =>
        /\ retry[c].max = 1
        /\ retry[c].settled = "rejected" => retry[c].err = 404

\* ------------------------------------------------------------------------
\* fetchCoinData: the market snapshot
\* ------------------------------------------------------------------------
\* the clock of this part advances by 2 minutes or by 14 minutes
Minute == 60 * 1000
SnapshotSteps == {2 * Minute, 14 * Minute}

\* a field the upstream row lacks
Undefined == "undefined"
\* two market lists the upstream may answer with
MarketA == << [id |-> "bitcoin", symbol |-> "btc", name |-> "Bitcoin",
               current_price |-> "60000", market_cap |-> Undefined,
               total_volume |-> "0", price_change_percentage_24h |-> Null] >>
MarketB == << [id |-> "ethereum", symbol |-> "", name |-> Undefined,
               current_price |-> "3000", market_cap |-> "9",
               total_volume |-> Undefined, price_change_percentage_24h |-> "0"] >>
Markets == {MarketA, MarketB}

\* x || null : the empty string is falsy
OrNull(x) == IF x = Undefined \/ x = Null \/ x = "" THEN Null ELSE x
\* x ?? null
CoalesceNull(x) == IF x = Undefined \/ x = Null THEN Null ELSE x

\* lines 58-66
Normalize(data) ==
  [k \in 1..Len(data) |->
     [id |-> OrNull(data[k].id),
      symbol |-> OrNull(data[k].symbol),
      name |-> OrNull(data[k].name),
      current_price |-> CoalesceNull(data[k].current_price),
      market_cap |-> CoalesceNull(data[k].market_cap),
      total_volume |-> CoalesceNull(data[k].total_volume),
      price_change_percentage_24h |-> CoalesceNull(data[k].price_change_percentage_24h)]]

Snapshot(rows) == [has |-> TRUE, rows |-> rows]
Returned(c) == [kind |-> "value", value |-> c]
Thrown == [kind |-> "error", value |-> NoSnapshot]

\* line 31 without the force and age tests
SnapshotFreshAlways(force) == cache.has

\* line 31
SnapshotFresh(force) == ~force /\ cache.has /\ now - lastFetch < CACHE_DURATION

\* line 37 with the test left out
RefreshRunningNever == FALSE

\* line 37: if (fetchPromise)
RefreshRunning == fetchPromise # NoLock

\* lines 27-55 and 85: fetchCoinData(force) up to its first suspension
FetchCoinData(c, force) ==
  /\ snap[c].pc = "new"
  /\ LET me == [NewSnap EXCEPT !.force = force]
     IN IF SnapshotFresh(force)
        THEN /\ snap' = [snap EXCEPT ![c] = [me EXCEPT !.pc = "done", !.path = "cache",
                                                !.result = Returned(cache)]]
             /\ UNCHANGED <<fetchPromise, snapPromise, upstreamCalls>>
        ELSE IF RefreshRunning
        THEN /\ snap' = [snap EXCEPT ![c] = [me EXCEPT !.pc = "joined", !.path = "joined",
                                                !.lock = fetchPromise]]
             /\ UNCHANGED <<fetchPromise, snapPromise, upstreamCalls>>
        ELSE /\ snap' = [snap EXCEPT ![c] = [me EXCEPT !.pc = "own", !.path = "started",
                                                !.lock = c, !.at = now]]
             /\ fetchPromise' = c
             /\ snapPromise' = [snapPromise EXCEPT ![c] = "pending"]
             /\ upstreamCalls' = upstreamCalls + 1
  /\ UNCHANGED <<now, cache, lastFetch, snapTicks, compareVars, throttleVars, otherVars>>

\* lines 70-77 rethrowing whether or not a snapshot exists
FailureOutcomeThrows(previous) == Thrown

\* lines 70-82: what the promise settles to when the upstream call failed
FailureOutcome(previous) == IF previous.has THEN Returned(previous) ELSE Thrown

\* the ways the axios.get of line 46 settles: a body, or an error with a
\* status or (timeout, network) without one
SnapshotOutcomes == {200, 429, NoStatus}

\* response.data of a settled call: an error carries no market list
ResponseData(status) == IF status = 200 THEN Markets ELSE {<<>>}

\* lines 46-83: the upstream call settles, and with it the promise and the
\* calls that await it; the catch of line 70 does not look at the status
SnapshotSettle(p, status, data) ==
  /\ snapPromise[p] = "pending"
  /\ LET ok == status = 200
         fresh == Snapshot(Normalize(data))
         outcome == IF ok THEN Returned(fresh) ELSE FailureOutcome(cache)
     IN /\ cache' = IF ok THEN fresh ELSE cache
        /\ lastFetch' = IF ok THEN snap[p].at ELSE lastFetch
        /\ fetchPromise' = NoLock
        /\ snapPromise' = [snapPromise EXCEPT ![p] = IF ok THEN "ok" ELSE "failed"]
        /\ snap' = [c \in Snaps |->
               IF snap[c].pc \in {"own", "joined"} /\ snap[c].lock = p
               THEN [snap[c] EXCEPT !.pc = "done", !.result = outcome, !.at = 0,
                                !.force = FALSE]
               ELSE snap[c]]
  /\ UNCHANGED <<now, upstreamCalls, snapTicks, compareVars, throttleVars, otherVars>>

SnapshotTick(d) ==
  /\ snapTicks < MaxSnapshotTicks
  /\ snapTicks' = snapTicks + 1
  /\ now' = now + d
  /\ UNCHANGED <<compareVars, throttleVars, cache, lastFetch, fetchPromise, snap,
                 snapPromise, upstreamCalls, otherVars>>

NextSnapshot ==
  \/ \E c \in Snaps, force \in BOOLEAN : FetchCoinData(c, force)
  \/ \E p \in Snaps, status \in SnapshotOutcomes :
        \E data \in ResponseData(status) : SnapshotSettle(p, status, data)
  \/ \E d \in SnapshotSteps : SnapshotTick(d)

SpecSnapshot == Init /\ [][NextSnapshot]_vars

\* C8: a call without force made while a snapshot exists that is younger
\* than 15 minutes returns the snapshot and issues no upstream call; a call
\* made when a snapshot of a successful refresh is 15 minutes old or older
\* and no refresh is running issues exactly one upstream call.
C8_SnapshotTTL ==
  [][\A c \in Snaps :
       (snap[c].pc = "new" /\ snap'[c].pc # "new") =>
          /\ (~snap'[c].force /\ cache.has /\ now - lastFetch < 15 * 60 * 1000)
               => /\ snap'[c].pc = "done"
                  /\ snap'[c].result = [kind |-> "value", value |-> cache]
                  /\ upstreamCalls' = upstreamCalls
          /\ (cache.has /\ now - lastFetch >= 15 * 60 * 1000 /\ fetchPromise = NoLock)
               => /\ upstreamCalls' = upstreamCalls + 1
                  /\ snapPromise'[c] = "pending"]_vars

\* a refresh succeeded, a later call was served from the cache, and a call
\* made 16 minutes after the refresh has started the second upstream call
C8_Witness ==
  \E a \in Snaps, c \in Snaps, d \in Snaps :
     /\ snap[a].path = "started" /\ snapPromise[a] = "ok"
     /\ snap[c].path = "cache" /\ snap[c].result = [kind |-> "value", value |-> cache]
     /\ snap[d].pc = "own" /\ ~snap[d].force
     /\ snap[d].at = lastFetch + 16 * Minute
     /\ upstreamCalls = 2

\* C9: when the upstream call of a refresh fails, the initiator and every
\* joined caller get the previous snapshot if there is one, and the failure
\* if there is none.
C9_RefreshFailure ==
  [][\A p \in Snaps :
       (snapPromise[p] = "pending" /\ snapPromise'[p] = "failed") =>
          \A c \in Snaps :
             (snap[c].pc \in {"own", "joined"} /\ snap[c].lock = p) =>
                /\ snap'[c].pc = "done"
                /\ snap'[c].result = IF cache.has
                                     THEN [kind |-> "value", value |-> cache]
                                     ELSE [kind |-> "error", value |-> NoSnapshot]
                /\ cache' = cache]_vars

\* a refresh failed while a snapshot existed, and its initiator and a
\* joined caller both got that snapshot
C9_Witness ==
  \E p \in Snaps, c \in Snaps :
     /\ p # c
     /\ snapPromise[p] = "failed"
     /\ snap[c].path = "joined" /\ snap[c].lock = p /\ snap[c].pc = "done"
     /\ cache.has
     /\ snap[c].result = [kind |-> "value", value |-> cache]
     /\ snap[p].result = snap[c].result

\* ------------------------------------------------------------------------
\* Properties of /compare
\* ------------------------------------------------------------------------
\* the refreshes of a key started by /compare that have not settled
RefreshesOf(k) == {p \in Req : Pending(p) /\ promise[p].key = k}
\* the worker attempts for a key that have not settled
AttemptsOf(k) == {i \in 1..Len(running) : Key(running[i].coin1, running[i].coin2) = k}

\* C1: callers that arrive while a refresh of their key is pending start no
\* fetch of their own: one refresh per key is pending at a time, it calls
\* fetchWithRetry once for coin1 and once for coin2, and when it succeeds
\* the initiator and every joined caller are answered with its result.
C1_SingleFlight ==
  /\ \A k \in Keys : Cardinality(RefreshesOf(k)) <= 1
  /\ \A p \in Req : promise[p].state \in {"fulfilled", "rejected"}
        => promise[p].calls = <<promise[p].coin1, promise[p].coin2>>
  /\ \A r \in Req : req[r].path = "joined" =>
        /\ promise[r].state = "none"
        /\ promise[req[r].lock].state = "fulfilled" =>
              /\ req[r].pc = "done"
              /\ req[r].resp = [status |-> 200, body |-> promise[req[r].lock].value]
              /\ req[req[r].lock].resp = req[r].resp

C1_Witness ==
  \E r \in Req :
     /\ req[r].path = "joined" /\ req[r].pc = "done"
     /\ promise[req[r].lock].state = "fulfilled"
     /\ Len(req[r].resp.body.data) = 2
     /\ req[req[r].lock].resp = req[r].resp

\* C2: the in-flight marker of a key is present only while the refresh it
\* names is running.
C2_MarkerOnlyWhileRunning ==
  \A k \in Keys : compareLocks[k] # NoLock => Pending(compareLocks[k])

\* C3: a call that finds no fresh entry for its key while no refresh of the
\* key is running starts a refresh.
C3_StaleCallStartsRefresh ==
  [][\A r \in Req :
       (/\ req[r].pc = "new" /\ req'[r].pc # "new"
        /\ ~CacheFresh(Key(req'[r].coin1, req'[r].coin2))
        /\ RefreshesOf(Key(req'[r].coin1, req'[r].coin2)) = {})
       => promise'[r].state = "fetch1"]_vars

\* C4: every answered call has a well-formed pair result, never an error.
C4_NeverAnError ==
  \A r \in Req : req[r].pc = "done" => req[r].resp.status = 200

\* C5: at most one operation that fetches a pair and writes its cache entry
\* is in flight per key, refreshes of /compare and worker attempts together.
C5_OneRefreshPerKey ==
  \A k \in Keys : Cardinality(RefreshesOf(k)) + Cardinality(AttemptsOf(k)) <= 1

\* C10: when a refresh fails as a whole and its key has no cache entry, the
\* initiating call is answered 200 with the placeholder for its coin1 and
\* coin2, and one task {coin1, coin2, attempt 1} is appended to the queue.
C10_Degradation ==
  [][\A p \in Req :
       (/\ promise[p].state = "fetch2" /\ promise'[p].state = "rejected"
        /\ ~compareCache[promise[p].key].has)
       => /\ req'[p].pc = "done"
          /\ req'[p].resp.status = 200
          /\ req'[p].resp.body.coin1 = req[p].coin1
          /\ req'[p].resp.body.coin2 = req[p].coin2
          /\ req'[p].resp.body.data =
                << [name |-> req[p].coin1, prices |-> <<>>],
                   [name |-> req[p].coin2, prices |-> <<>>] >>
          /\ req'[p].resp.body.warning # Null
          /\ retryQueue' = Append(retryQueue,
                [coin1 |-> req[p].coin1, coin2 |-> req[p].coin2, attempt |-> 1])]_vars

C10_Witness ==
  \E p \in Req :
     /\ promise[p].state = "rejected" /\ req[p].pc = "done"
     /\ req[p].resp.body.warning = PlaceholderWarning
     /\ \E i \in 1..Len(retryQueue) :
           retryQueue[i] = [coin1 |-> req[p].coin1, coin2 |-> req[p].coin2, attempt |-> 1]

\* C13: a call for a pair finds the entry and the refresh of that pair
\* whichever order the ids were given in: when a fresh entry written for
\* {a, b} exists, the call is answered with it and starts nothing; when a
\* refresh for {a, b} is pending and no entry is fresh, the call joins it.
C13_CanonicalKey ==
  [][\A r \in Req :
       (req[r].pc = "new" /\ req'[r].pc # "new") =>
          /\ \A k \in Keys :
                (/\ compareCache[k].has
                 /\ now - compareCache[k].timestamp < 60 * 1000
                 /\ {compareCache[k].data.coin1, compareCache[k].data.coin2}
                       = {req'[r].coin1, req'[r].coin2})
                => /\ req'[r].pc = "done"
                   /\ req'[r].resp = [status |-> 200, body |-> compareCache[k].data]
                   /\ promise' = promise
                   /\ compareLocks' = compareLocks
          /\ \A p \in Req :
                (/\ Pending(p)
                 /\ {promise[p].coin1, promise[p].coin2} = {req'[r].coin1, req'[r].coin2}
                 /\ \A k \in Keys : ~(compareCache[k].has
                                         /\ now - compareCache[k].timestamp < 60 * 1000))
                => /\ req'[r].pc = "joined"
                   /\ req'[r].lock = p
                   /\ promise' = promise]_vars

\* a refresh asked for (bitcoin, ethereum) wrote the entry, and a call for
\* (ethereum, bitcoin) was answered with that entry
C13_Witness ==
  \E a \in Req, r \in Req :
     /\ req[a].coin1 = Bitcoin /\ req[a].coin2 = Ethereum
     /\ promise[a].state = "fulfilled"
     /\ req[r].coin1 = Ethereum /\ req[r].coin2 = Bitcoin
     /\ req[r].path = "cache"
     /\ req[r].resp.body = promise[a].value
     /\ req[r].resp.body.coin1 = Bitcoin

\* ------------------------------------------------------------------------
\* alignTimeframes on its own
\* ------------------------------------------------------------------------
Stamps == 1..MaxStamp
AlignPrices == {10, 20}

\* the elements of a set of timestamps in ascending order
SortedStamps(S) ==
  CHOOSE s \in [1..Cardinality(S) -> S] :
     \A i \in 1..Cardinality(S), j \in 1..Cardinality(S) : i < j => s[i] < s[j]

\* the series with price f[t] at every timestamp t of DOMAIN f
SeriesOf(f) ==
  [i \in 1..Cardinality(DOMAIN f) |->
     <<SortedStamps(DOMAIN f)[i], f[SortedStamps(DOMAIN f)[i]]>>]

\* every series with ascending, distinct timestamps
AscendingSeries ==
  {SeriesOf(f) : f \in UNION {[S -> AlignPrices] : S \in SUBSET Stamps}}
\* every series of two points, in any order and with repeated timestamps
TwoPointSeries ==
  {<<p, q>> : p \in Stamps \X AlignPrices, q \in Stamps \X AlignPrices}

\* the values alignTimeframes is called with; Absent is null / undefined
SeriesArgs == AscendingSeries \cup TwoPointSeries \cup {SeriesA, SeriesB, Absent}

InitAlign ==
  /\ InitProgram
  /\ series \in SeriesArgs \X SeriesArgs
  /\ aligned = NoArgs

\* lines 164-177
AlignTimeframes ==
  /\ aligned = NoArgs
  /\ aligned' = alignTimeframes(series[1], series[2])
  /\ UNCHANGED <<now, compareVars, throttleVars, snapshotVars, retryVars,
                 preloadVars, series>>

NextAlign == AlignTimeframes

SpecAlign == InitAlign /\ [][NextAlign]_vars

\* timestamps ascending, none repeated
Ascending(s) == \A i \in 1..(Len(s) - 1) : s[i][1] < s[i + 1][1]
Points(s) == {s[i] : i \in 1..Len(s)}
Timestamps(s) == {s[i][1] : i \in 1..Len(s)}

\* C14: for two present series with ascending, distinct timestamps the
\* outputs are the points of the first and of the second input whose
\* timestamp occurs in both, ascending, of equal length and with the same
\* timestamp at every index; with an absent input the inputs are returned.
C14_Align ==
  aligned # NoArgs =>
    /\ (series[1] = Absent \/ series[2] = Absent) => aligned = series
    /\ (/\ series[1] # Absent /\ series[2] # Absent
        /\ Ascending(series[1]) /\ Ascending(series[2])) =>
          /\ Points(aligned[1]) =
                {p \in Points(series[1]) : p[1] \in Timestamps(series[2])}
          /\ Points(aligned[2]) =
                {p \in Points(series[2]) : p[1] \in Timestamps(series[1])}
          /\ Ascending(aligned[1]) /\ Ascending(aligned[2])
          /\ Len(aligned[1]) = Len(aligned[2])
          /\ \A i \in 1..Len(aligned[1]) : aligned[1][i][1] = aligned[2][i][1]

\* the call align([(1,10),(2,11),(3,12)], [(2,20),(3,21),(4,22)]) has
\* returned [(2,11),(3,12)] and [(2,20),(3,21)]
C14_Witness ==
  /\ series = << << <<1, 10>>, <<2, 11>>, <<3, 12>> >>,
                 << <<2, 20>>, <<3, 21>>, <<4, 22>> >> >>
  /\ aligned = << << <<2, 11>>, <<3, 12>> >>, << <<2, 20>>, <<3, 21>> >> >>

\* a pair result with two series has them of equal length, with the same
\* timestamp at every index
PairAligned(result) ==
  Len(result.data) = 2 =>
     /\ Len(result.data[1].prices) = Len(result.data[2].prices)
     /\ \A i \in 1..Len(result.data[1].prices) :
           result.data[1].prices[i][1] = result.data[2].prices[i][1]

\* C15: every pair entry of the cache that holds two series, and every
\* two-series result a call was answered with, has the two series of equal
\* length with equal timestamps index by index.
C15_PairsAligned ==
  /\ \A k \in Keys : compareCache[k].has => PairAligned(compareCache[k].data)
  /\ \A r \in Req :
        (req[r].pc = "done" /\ req[r].resp.status = 200) => PairAligned(req[r].resp.body)

\* the upstream series of bitcoin (timestamps 1..3) and of ethereum (2..4)
\* are cached, and were returned, cut to the common timestamps 2 and 3
C15_Witness ==
  \E k \in Keys, r \in Req :
     /\ compareCache[k].has
     /\ Len(compareCache[k].data.data) = 2
     /\ compareCache[k].data.data[1].prices = << <<2, 11>>, <<3, 12>> >>
     /\ compareCache[k].data.data[2].prices = << <<2, 20>>, <<3, 21>> >>
     /\ req[r].pc = "done" /\ req[r].path = "started"
     /\ req[r].resp.body = compareCache[k].data

\* ------------------------------------------------------------------------
\* The retry queue over the whole life of a task
\* ------------------------------------------------------------------------
\* The interval timer of the worker fires.  The clock is followed up to
\* EndTime; beyond it time passes without its reading being followed.
QueueTimer ==
  /\ now' = Min(now + TickMs, EndTime)
  /\ workerDue' = TRUE
  /\ UNCHANGED <<compareCache, compareLocks, retryQueue, req, promise, running,
                 prewarmDue>>
  /\ UNCHANGED <<throttleVars, snapshotVars, otherVars>>

NextQueue ==
  \/ QueueTimer
  \/ Prewarm
  \/ WorkerTick
  \/ \E i \in 1..Len(running), o \in PromiseAllOutcomes : WorkerSettle(i, o)

\* setInterval fires every 15 s and its callback runs; Promise.all settles
\* because fetchWithRetry makes at most 30 calls of at most 20 s each
SpecQueue ==
  /\ Init
  /\ [][NextQueue]_vars
  /\ WF_vars(QueueTimer)
  /\ WF_vars(WorkerTick)
  /\ WF_vars(\E i \in 1..Len(running), o \in PromiseAllOutcomes : WorkerSettle(i, o))

\* the tasks queued or being attempted
Tasks == {retryQueue[i] : i \in 1..Len(retryQueue)} \cup {running[i] : i \in 1..Len(running)}

Malformed == << <<1, 10>>, <<2>>, <<3, 12, 0>> >>
\* the bodies a market_chart call for a coin may answer with; prices Absent
\* is a body without prices
ChartBodies(coinId) ==
  {Body(MarketChart(coinId, OneYear)), Body(Malformed), Body(Absent), Body(<<>>)}

\* lines 358-360 / 627-634: (data.prices || []).filter(...).map(...); the
\* timestamps of the model are numbers, which new Date() accepts
TwoComponents(p) == Len(p) = 2
CleanPrices(data) ==
  SelectSeq(IF data.prices = Absent THEN <<>> ELSE data.prices, TwoComponents)

\* line 346: the entry exists and its data has a non-empty prices array
PreloadHit(entry) ==
  /\ entry.has
  /\ "prices" \in DOMAIN entry.data
  /\ Len(entry.data.prices) > 0

PreloadEntry(coinId, data) == Entry(now, [name |-> coinId, prices |-> CleanPrices(data)])
ReturnedEntry(entry) == [kind |-> "entry", entry |-> entry]

\* lines 342-356: ensurePreloadedCoin(coinId) up to its first suspension
EnsurePreloadedCoin(c, coinId) ==
  /\ preload[c].pc = "new"
  /\ LET me == [NewPreload EXCEPT !.fn = "ensure", !.coinId = coinId]
         entry == compareCache[PreloadKey(coinId)]
     IN preload' = [preload EXCEPT ![c] =
          IF PreloadHit(entry)
          THEN [me EXCEPT !.pc = "done", !.result = ReturnedEntry(entry)]
          ELSE [me EXCEPT !.pc = "fetch", !.fetched = TRUE]]
  /\ UNCHANGED <<now, compareVars, throttleVars, snapshotVars, retryVars, alignVars>>

\* lines 369-372 without the catch: the error leaves the function
EnsureFailureThrows == [kind |-> "error", entry |-> NoEntry]

\* lines 369-372: return null
EnsureFailure == [kind |-> "null", entry |-> NoEntry]

\* lines 356-372: fetchWithRetry settles
EnsureSettle(c, o, data) ==
  /\ preload[c].pc = "fetch" /\ preload[c].fn = "ensure"
  /\ LET key == PreloadKey(preload[c].coinId)
         entry == PreloadEntry(preload[c].coinId, data)
     IN IF o = 200
        THEN /\ compareCache' = [compareCache EXCEPT ![key] = entry]
             /\ preload' = [preload EXCEPT ![c].pc = "done",
                                           ![c].result = ReturnedEntry(entry)]
        ELSE /\ preload' = [preload EXCEPT ![c].pc = "done",
                                           ![c].result = EnsureFailure]
             /\ UNCHANGED compareCache
  /\ UNCHANGED <<now, compareLocks, retryQueue, req, promise, running, workerDue,
                 prewarmDue>>
  /\ UNCHANGED <<throttleVars, snapshotVars, retryVars, alignVars>>

\* lines 619-625: preloadChart(coinId) up to its first suspension
PreloadChart(c, coinId) ==
  /\ preload[c].pc = "new"
  /\ preload' = [preload EXCEPT ![c] =
        [NewPreload EXCEPT !.fn = "chart", !.coinId = coinId, !.pc = "fetch",
                           !.fetched = TRUE]]
  /\ UNCHANGED <<now, compareVars, throttleVars, snapshotVars, retryVars, alignVars>>

\* lines 625-651: fetchWithRetry settles; after a 404 axios.get is called
\* with days = "max"
PreloadChartSettle(c, o, data) ==
  /\ preload[c].pc = "fetch" /\ preload[c].fn = "chart"
  /\ LET key == PreloadKey(preload[c].coinId)
     IN IF o = 200
        THEN /\ compareCache' = [compareCache EXCEPT ![key] =
                                   PreloadEntry(preload[c].coinId, data)]
             /\ preload' = [preload EXCEPT ![c].pc = "done"]
        ELSE /\ preload' = [preload EXCEPT ![c].pc = IF o = 404 THEN "axios" ELSE "done"]
             /\ UNCHANGED compareCache
  /\ UNCHANGED <<now, compareLocks, retryQueue, req, promise, running, workerDue,
                 prewarmDue>>
  /\ UNCHANGED <<throttleVars, snapshotVars, retryVars, alignVars>>

\* lines 651-670: the axios.get of the fallback settles
PreloadChartFallbackSettle(c, o, data) ==
  /\ preload[c].pc = "axios"
  /\ LET key == PreloadKey(preload[c].coinId)
     IN IF o = 200
        THEN compareCache' = [compareCache EXCEPT ![key] =
                                PreloadEntry(preload[c].coinId, data)]
        ELSE UNCHANGED compareCache
  /\ preload' = [preload EXCEPT ![c].pc = "done"]
  /\ UNCHANGED <<now, compareLocks, retryQueue, req, promise, running, workerDue,
                 prewarmDue>>
  /\ UNCHANGED <<throttleVars, snapshotVars, retryVars, alignVars>>

PreloadEndTime == StartTime + MaxPreloadTicks * TickMs

PreloadTick ==
  /\ now < PreloadEndTime
  /\ now' = now + TickMs
  /\ UNCHANGED <<compareVars, throttleVars, snapshotVars, otherVars>>

NextPreload ==
  \/ \E c \in Preloads, coinId \in Coins : EnsurePreloadedCoin(c, coinId)
  \/ \E c \in Preloads, o \in FetchOutcomes :
        \E data \in ChartBodies(preload[c].coinId) : EnsureSettle(c, o, data)
  \/ \E c \in Preloads, coinId \in Coins : PreloadChart(c, coinId)
  \/ \E c \in Preloads, o \in FetchOutcomes :
        \E data \in ChartBodies(preload[c].coinId) : PreloadChartSettle(c, o, data)
  \/ \E c \in Preloads, o \in AxiosOutcomes :
        \E data \in ChartBodies(preload[c].coinId) : PreloadChartFallbackSettle(c, o, data)
  \/ PreloadTick

SpecPreload == Init /\ [][NextPreload]_vars

\* C17: ensurePreloadedCoin never throws; a call that finds an entry with a
\* non-empty series for its id returns it without calling fetchWithRetry;
\* otherwise a successful fetch stores the series of two-component points
\* under the id and returns that entry, and a failed fetch returns null
\* and leaves the cache as it is.
C17_EnsurePreloaded ==
  /\ [](\A c \in Preloads : preload[c].fn = "ensure" => preload[c].result.kind # "error")
  /\ [][\A c \in Preloads :
          (preload[c].pc = "new" /\ preload'[c].fn = "ensure") =>
             LET entry == compareCache[PreloadKey(preload'[c].coinId)]
             IN /\ (entry.has /\ "prices" \in DOMAIN entry.data
                      /\ entry.data.prices # <<>>)
                     => /\ preload'[c].pc = "done"
                        /\ preload'[c].result = [kind |-> "entry", entry |-> entry]
                        /\ ~preload'[c].fetched
                /\ compareCache' = compareCache]_vars
  /\ [][\A c \in Preloads :
          (preload[c].fn = "ensure" /\ preload[c].pc = "fetch" /\ preload'[c].pc = "done") =>
          \A o \in FetchOutcomes, data \in ChartBodies(preload[c].coinId) :
             EnsureSettle(c, o, data) =>
                LET key == PreloadKey(preload[c].coinId)
                    given == IF data.prices = Absent THEN <<>> ELSE data.prices
                    kept == SelectSeq(given, LAMBDA p : Len(p) = 2)
                IN /\ preload'[c].pc = "done"
                   /\ (o = 200) =>
                         /\ compareCache'[key] =
                               [has |-> TRUE, timestamp |-> now,
                                data |-> [name |-> preload[c].coinId, prices |-> kept]]
                         /\ preload'[c].result = [kind |-> "entry", entry |-> compareCache'[key]]
                   /\ (o # 200) =>
                         /\ preload'[c].result.kind = "null"
                         /\ compareCache' = compareCache]_vars

\* a call fetched a body with malformed points and stored the one point
\* that is a pair; a second call for the same id was answered with that
\* entry without fetching
C17_Witness ==
  \E a \in Preloads, c \in Preloads :
     /\ preload[a].fn = "ensure" /\ preload[a].fetched
     /\ preload[a].result.kind = "entry"
     /\ preload[a].result.entry.data.prices = << <<1, 10>> >>
     /\ preload[c].fn = "ensure" /\ ~preload[c].fetched
     /\ preload[c].coinId = preload[a].coinId
     /\ preload[c].pc = "done"
     /\ preload[c].result = preload[a].result

C19_NoTaskWithEntry ==
  [][\A p \in Req :
       (/\ promise[p].state = "fetch2" /\ promise'[p].state = "rejected"
        /\ compareCache[promise[p].key].has)
       => /\ req'[p].resp.status = 200
          /\ req'[p].resp.body.data = compareCache[promise[p].key].data.data
          /\ req'[p].resp.body.warning = StaleWarning
          /\ retryQueue' = retryQueue]_vars

\* C20: when the upstream call of a snapshot refresh fails with status 429
\* or without a status, the refresh does not settle: it stays pending and
\* the call is made again.
C20_RefreshRetries ==
  [][\A p \in Snaps :
       (snapPromise[p] = "pending" /\ snapPromise'[p] # "pending") =>
          \A status \in {429, NoStatus} : ~SnapshotSettle(p, status, <<>>)]_vars

C22_WarningIffDegraded ==
  /\ \A k \in Keys :
        compareCache[k].has =>
           (compareCache[k].data.warning # Null <=> Len(compareCache[k].data.data) < 2)
  /\ \A r \in Req :
        (req[r].pc = "done" /\ req[r].resp.status = 200) =>
           LET failed == req[r].path = "started" /\ promise[r].state = "rejected"
               partial == Len(req[r].resp.body.data) < 2
           IN req[r].resp.body.warning # Null <=> (failed \/ partial)

\* ------------------------------------------------------------------------
\* /compare and ensurePreloadedCoin on the keys of one cache
\* ------------------------------------------------------------------------
\* coin1 and coin2 are any strings of the query (line 187); "tron" is one
\* of PRELOAD_COINS (line 182)
Tron == <<"t", "r", "o", "n">>
PreloadWord == <<"p", "r", "e", "l", "o", "a", "d">>
PRELOAD_COINS == {Bitcoin, Tron}
PairQueries == {<<PreloadWord, Tron>>, <<Bitcoin, PreloadWord>>}
PairKeys == {Key(q[1], q[2]) : q \in PairQueries}
PreloadKeys == {PreloadKey(coinId) : coinId \in PRELOAD_COINS}

\* the state of the process once the module is loaded, with the keys these
\* requests and preloads use
InitKeys ==
  /\ now = StartTime
  /\ compareCache = [k \in PairKeys \cup PreloadKeys |-> NoEntry]
  /\ compareLocks = [k \in PairKeys |-> NoLock]
  /\ retryQueue = <<>>
  /\ req = [r \in Req |-> NewReq]
  /\ promise = [r \in Req |-> NoPromise]
  /\ running = <<>>
  /\ workerDue = FALSE
  /\ prewarmDue = TRUE
  /\ lastMarketChartFetch = 0
  /\ fetch = [f \in Fetchers |-> NewFetch]
  /\ issued = <<>>
  /\ cache = NoSnapshot
  /\ lastFetch = 0
  /\ fetchPromise = NoLock
  /\ snap = [c \in Snaps |-> NewSnap]
  /\ snapPromise = [c \in Snaps |-> "none"]
  /\ upstreamCalls = 0
  /\ snapTicks = 0
  /\ retry = [c \in Callers |-> NewRetry]
  /\ preload = [c \in Preloads |-> NewPreload]
  /\ series = NoArgs
  /\ aligned = NoArgs

NextKeys ==
  \/ \E r \in Req, q \in PairQueries : GetComparison(r, q[1], q[2])
  \/ \E p \in Req, o \in FetchOutcomes : \E fb \in FallbackOutcomes(o) :
        Fetch1Settle(p, o, fb)
  \/ \E p \in Req : PacingElapsed(p)
  \/ \E p \in Req, o \in FetchOutcomes : \E fb \in FallbackOutcomes(o) :
        Fetch2Settle(p, o, fb)
  \/ \E c \in Preloads, coinId \in PRELOAD_COINS : EnsurePreloadedCoin(c, coinId)
  \/ \E c \in Preloads, o \in FetchOutcomes :
        \E data \in ChartBodies(preload[c].coinId) : EnsureSettle(c, o, data)

SpecKeys == InitKeys /\ [][NextKeys]_vars

\* C23: pair keys and preload keys never coincide, so that a write of
\* /compare never replaces an entry that ensurePreloadedCoin stored (data of
\* the form {name, prices}) and a write of ensurePreloadedCoin never
\* replaces a pair result (data of the form {coin1, coin2, data}).
C23_KeyedDistinctly ==
  [][\A k \in DOMAIN compareCache :
       (compareCache[k].has /\ compareCache'[k] # compareCache[k]) =>
          ("prices" \in DOMAIN compareCache[k].data
              <=> "prices" \in DOMAIN compareCache'[k].data)]_vars

====
